---- MODULE Spec2Model ----
(***************************************************************************)
(* Model of shodan_gt_scan.py: the query policy (asegurar_sin_org,         *)
(* forzar_country_gt), the paginated fetch (buscar_paginado) and the run   *)
(* of main with its aggregation and summary.                               *)
(*                                                                         *)
(* A Python str is a sequence of one-character strings, so the regular     *)
(* expressions and str.strip are computed character by character.          *)
(***************************************************************************)
EXTENDS Integers, Sequences, FiniteSets, TLC

VARIABLES
    args_query,      \* args.query (str)
    args_api_key,    \* args.api_key (None when -k is not given)
    env_api_key,     \* os.environ SHODAN_API_KEY (None when unset)
    args_pages,      \* args.pages (int, any sign)
    pc,              \* position of main
    consulta_final,  \* main: consulta_final
    api_key,         \* main: api_key
    client_key,      \* the value shodan.Shodan(...) was constructed with
    header_query,    \* the "Consulta Shodan: ..." line of the header
    page_idx,        \* buscar_paginado: page_idx
    calls,           \* the cliente.search calls issued, in order
    matches,         \* main: the batch the generator yielded
    total_listados,  \* main: total_listados
    ip_unicas,       \* main: ip_unicas
    port_map,        \* main: port_map (a function: port -> set of IPs)
    seen,            \* history: the records the service has returned
    batches,         \* history: the sizes of the batches the generator yielded
    out,             \* what was printed: a sequence of tagged lines
    sleeps,          \* number of time.sleep calls of buscar_paginado
    exit_code,       \* return value of main (-1 while running)
    once,            \* forzar_country_gt(args_query)
    twice            \* forzar_country_gt(forzar_country_gt(args_query))

vars == <<args_query, args_api_key, env_api_key, args_pages, pc, consulta_final,
          api_key, client_key, header_query, page_idx, calls, matches,
          total_listados, ip_unicas, port_map, seen, batches, out, sleeps,
          exit_code, once, twice>>

(***************************************************************************)
(* Bounds of the model.                                                    *)
(***************************************************************************)
MaxFrags == 3    \* a query of SpecQuery is made of at most MaxFrags fragments
MaxPages == 3    \* --pages ranges over -1 .. MaxPages
MaxBatch == 3    \* a page carries at most MaxBatch records
MaxListed == 3   \* the service returns at most MaxListed records in a run

PageSize == 100  \* --page-size, its default

(***************************************************************************)
(* Characters and strings.                                                 *)
(***************************************************************************)
None == "<None>"
Unset == <<"<unset>">>

Max(a, b) == IF a >= b THEN a ELSE b

Lower(c) ==
    CASE c = "C" -> "c" [] c = "O" -> "o" [] c = "U" -> "u" [] c = "N" -> "n"
      [] c = "T" -> "t" [] c = "R" -> "r" [] c = "Y" -> "y" [] c = "G" -> "g"
      [] c = "X" -> "x"
      [] OTHER -> c

\* \s of re, and the characters str.strip removes
IsSpace(c) == c \in {" ", "\t", "\n"}

\* \w of re
IsWord(c) ==
    Lower(c) \in {"c", "o", "u", "n", "t", "r", "y", "g", "x", "p", "2", "_"}

\* s[i .. i+Len(lit)-1] equals lit, ignoring case (re.IGNORECASE)
LitAt(s, i, lit) ==
    /\ i >= 1
    /\ i + Len(lit) - 1 <= Len(s)
    /\ \A k \in 1..Len(lit) : Lower(s[i + k - 1]) = lit[k]

\* the position reached from i after \s* has taken every space
RECURSIVE SkipSpaces(_, _)
SkipSpaces(s, i) ==
    IF i <= Len(s) /\ IsSpace(s[i]) THEN SkipSpaces(s, i + 1) ELSE i

\* str.strip()
strip(s) ==
    LET keep == {i \in 1..Len(s) : ~IsSpace(s[i])}
    IN  IF keep = {} THEN <<>>
        ELSE LET lo == CHOOSE i \in keep : \A j \in keep : i <= j
                 hi == CHOOSE i \in keep : \A j \in keep : i >= j
             IN  SubSeq(s, lo, hi)

(***************************************************************************)
(* Query validation.                                                       *)
(***************************************************************************)
\* OrgKeyAt with "(" left out of the character class
OrgKeyAt_NoParen(s, i) ==
    /\ LitAt(s, i, <<"o", "r", "g", ":">>)
    /\ (i = 1 \/ IsSpace(s[i - 1]))

\* ORG_PATTERN matches at i: (^|[\s(]) then "org:", the key starting at i
OrgKeyAt(s, i) ==
    /\ LitAt(s, i, <<"o", "r", "g", ":">>)
    /\ (i = 1 \/ IsSpace(s[i - 1]) \/ s[i - 1] = "(")

ORG_PATTERN(s) == \E i \in 1..Len(s) : OrgKeyAt(s, i)

\* TRUE when asegurar_sin_org raises ValueError
asegurar_sin_org(consulta) == ORG_PATTERN(consulta)

\* \bcountry\s*:\s*gt\b matches with "country" starting at i
CountryAt(s, i) ==
    /\ LitAt(s, i, <<"c", "o", "u", "n", "t", "r", "y">>)
    /\ (i = 1 \/ ~IsWord(s[i - 1]))
    /\ LET a == SkipSpaces(s, i + 7)
       IN  /\ LitAt(s, a, <<":">>)
           /\ LET b == SkipSpaces(s, a + 1)
              IN  /\ LitAt(s, b, <<"g", "t">>)
                  /\ (b + 2 > Len(s) \/ ~IsWord(s[b + 2]))

CountrySearch(s) == \E i \in 1..Len(s) : CountryAt(s, i)

CountrySuffix == <<")", " ", "c", "o", "u", "n", "t", "r", "y", ":", "G", "T">>

\* forzar_country_gt appending the filter without looking for it
forzar_country_gt_Always(consulta) ==
    <<"(">> \o strip(consulta) \o CountrySuffix

\* forzar_country_gt without the strip
forzar_country_gt_NoStrip(consulta) ==
    IF CountrySearch(consulta) THEN consulta
    ELSE <<"(">> \o consulta \o CountrySuffix

forzar_country_gt(consulta) ==
    LET q == strip(consulta)
    IN  IF CountrySearch(q) THEN q ELSE <<"(">> \o q \o CountrySuffix

\* obtener_api_key assigns a local and returns nothing: the call yields None
obtener_api_key(preferida) == None

(***************************************************************************)
(* Result records of the service.  A field that is missing is None; the    *)
(* port is tagged as an int or as missing.                                 *)
(***************************************************************************)
NoPort == [kind |-> "absent", n |-> 0]
IntPort(p) == [kind |-> "int", n |-> p]

Rec(s, i, p) == [ip_str |-> s, ip |-> i, port |-> p]

Records ==
    { Rec("1.2.3.4", "16909060", IntPort(3389)),
      Rec("5.6.7.8", None, IntPort(22)),
      Rec("1.2.3.4", None, IntPort(22)),
      Rec(None, None, IntPort(22)),
      Rec("", "9.9.9.9", NoPort) }

RECURSIVE SeqsUpTo(_, _)
SeqsUpTo(S, n) ==
    IF n = 0 THEN {<<>>}
    ELSE LET p == SeqsUpTo(S, n - 1)
         IN  p \cup {Append(b, r) : b \in p, r \in S}

Min(a, b) == IF a <= b THEN a ELSE b

\* the batches a page can carry when the run may still list `room` records
Batches(room) == SeqsUpTo(Records, Min(MaxBatch, room))

\* Python truth value of a str-or-None
Truthy(v) == v # None /\ v # ""

\* IpOf reading ip_str alone
IpOf_NoFallback(r) == r.ip_str

\* r.get("ip_str") or r.get("ip")
IpOf(r) == IF Truthy(r.ip_str) THEN r.ip_str ELSE r.ip

(***************************************************************************)
(* Aggregation: the body of main's inner loop, one record at a time.       *)
(***************************************************************************)
\* port_map[port].add(ip) on a defaultdict(set)
AddPort(pm, port, ip) ==
    IF port \in DOMAIN pm
    THEN [pm EXCEPT ![port] = @ \cup {ip}]
    ELSE [k \in DOMAIN pm \cup {port} |-> IF k = port THEN {ip} ELSE pm[k]]

\* the pair <<ip_unicas, port_map>> after one record
Aggregate(ips, pm, r) ==
    LET ip == IpOf(r)
    IN  IF Truthy(ip)
        THEN <<ips \cup {ip},
               IF r.port.kind = "int" THEN AddPort(pm, r.port.n, ip) ELSE pm>>
        ELSE <<ips, pm>>

RECURSIVE AggregateAll(_, _, _)
AggregateAll(ips, pm, batch) ==
    IF batch = <<>> THEN <<ips, pm>>
    ELSE LET one == Aggregate(ips, pm, Head(batch))
         IN  AggregateAll(one[1], one[2], Tail(batch))

\* the render_linea rows printed for a batch, numbered from first
Rows(batch, first) ==
    [k \in 1..Len(batch) |-> [tag |-> "row", idx |-> first + k - 1]]

\* sorted(mapa_puertos)
RECURSIVE Sorted(_)
Sorted(S) ==
    IF S = {} THEN <<>>
    ELSE LET m == CHOOSE x \in S : \A y \in S : x <= y
         IN  <<m>> \o Sorted(S \ {m})

\* what print_resumen prints
print_resumen(total, ips, pm) ==
    [tag |-> "summary",
     total |-> total,
     unique |-> Cardinality(ips),
     table |-> LET ps == Sorted(DOMAIN pm)
               IN  [k \in 1..Len(ps) |-> <<ps[k], Cardinality(pm[ps[k]])>>],
     noports |-> (DOMAIN pm = {})]

(***************************************************************************)
(* Inputs.                                                                 *)
(***************************************************************************)
F_org == <<"o", "r", "g", ":">>
F_Org == <<"O", "r", "G", ":">>
F_country == <<"c", "o", "u", "n", "t", "r", "y">>
F_CountryGt == <<"C", "o", "u", "n", "t", "r", "Y", ":", "g", "T">>
F_colon == <<":">>
F_gt == <<"G", "t">>
F_sp == <<" ">>
F_tab == <<"\t">>
F_spcolon == <<" ", ":", "\t">>
F_open == <<"(">>
F_x == <<"x">>
F_port == <<"p", "o", "r", "t", ":", "2", "2">>

Frags == {F_org, F_Org, F_country, F_CountryGt, F_colon, F_spcolon, F_gt,
          F_sp, F_open, F_x}

RECURSIVE Concats(_)
Concats(n) ==
    IF n = 0 THEN {<<>>}
    ELSE LET p == Concats(n - 1)
         IN  p \cup {a \o f : a \in p, f \in Frags}

\* the queries of SpecQuery
Queries == Concats(MaxFrags)

\* the queries of Spec: five that carry the org: key, two that do not
SampleQueries ==
    { F_org \o F_x,
      F_port \o F_sp \o F_open \o F_Org \o F_x,
      F_port \o F_tab \o F_Org,
      F_sp \o F_Org \o F_x \o F_sp \o F_CountryGt,
      F_open \o F_org,
      F_x \o F_org \o F_x,
      F_port \o F_sp \o F_CountryGt }

InitWith(Q, P, K, E) ==
    /\ args_query \in Q
    /\ args_pages \in P
    /\ args_api_key \in K
    /\ env_api_key \in E
    /\ pc = "validate"
    /\ consulta_final = Unset
    /\ api_key = None
    /\ client_key = "<no client>"
    /\ header_query = Unset
    /\ page_idx = 0
    /\ calls = <<>>
    /\ matches = <<>>
    /\ total_listados = 0
    /\ ip_unicas = {}
    /\ port_map = <<>>
    /\ seen = {}
    /\ batches = <<>>
    /\ out = <<>>
    /\ sleeps = 0
    /\ exit_code = -1
    /\ once = Unset
    /\ twice = Unset

Init == InitWith(SampleQueries, -1..MaxPages, {None, "KEY_ARG"}, {None, "KEY_ENV"})

InitQuery == InitWith(Queries, {1}, {"KEY_ARG"}, {None})

(***************************************************************************)
(* main                                                                    *)
(***************************************************************************)
\* LastPage for range(1, max(1, paginas))
LastPage_OffByOne(paginas) == Max(1, paginas) - 1

\* range(1, max(1, paginas) + 1): the last page index of buscar_paginado
LastPage(paginas) == Max(1, paginas)

\* NoResults for "not matches and total_listados > 0"
NoResults_Later(m, total) == m = <<>> /\ total > 0

\* NoResults for "not matches"
NoResults_AnyEmpty(m, total) == m = <<>>

\* "not matches and total_listados == 0"
NoResults(m, total) == m = <<>> /\ total = 0

\* NewTotal for "total_listados = len(matches)"
NewTotal_Assign(total, m) == Len(m)

\* total_listados += len(matches)
NewTotal(total, m) == total + Len(m)

\* lines 141-147: the try block; any exception prints ERROR and returns 2
Validate ==
    /\ pc = "validate"
    /\ IF asegurar_sin_org(args_query)
       THEN /\ out' = Append(out, [tag |-> "error", stream |-> "stderr"])
            /\ exit_code' = 2
            /\ pc' = "failed"
            /\ UNCHANGED <<consulta_final, api_key>>
       ELSE /\ consulta_final' = forzar_country_gt(args_query)
            /\ api_key' = obtener_api_key(args_api_key)
            /\ pc' = "header"
            /\ UNCHANGED <<out, exit_code>>
    /\ UNCHANGED <<args_query, args_api_key, env_api_key, args_pages, client_key,
                   header_query, page_idx, calls, matches, total_listados,
                   ip_unicas, port_map, seen, batches, sleeps, once, twice>>

\* lines 150-160: the client, the header, the accumulators; then the for
\* statement starts the generator, whose range(1, max(1, paginas) + 1) is
\* never empty
Header ==
    /\ pc = "header"
    /\ client_key' = api_key
    /\ header_query' = consulta_final
    /\ out' = out \o <<[tag |-> "header"], [tag |-> "context"]>>
    /\ total_listados' = 0
    /\ ip_unicas' = {}
    /\ port_map' = <<>>
    /\ page_idx' = 1
    /\ pc' = "search"
    /\ UNCHANGED <<args_query, args_api_key, env_api_key, args_pages,
                   consulta_final, api_key, calls, matches, seen, batches,
                   sleeps, exit_code, once, twice>>

RECURSIVE Listed(_)
Listed(sizes) == IF sizes = <<>> THEN 0 ELSE Head(sizes) + Listed(Tail(sizes))

TheCall == [query |-> consulta_final, page |-> page_idx, limit |-> PageSize]

\* lines 126-131: cliente.search returns and the batch is yielded
SearchOk(batch) ==
    /\ pc = "search"
    /\ calls' = Append(calls, TheCall)
    /\ matches' = batch
    /\ seen' = seen \cup {batch[k] : k \in 1..Len(batch)}
    /\ batches' = Append(batches, Len(batch))
    /\ pc' = "process"
    /\ UNCHANGED <<args_query, args_api_key, env_api_key, args_pages,
                   consulta_final, api_key, client_key, header_query, page_idx,
                   total_listados, ip_unicas, port_map, out, sleeps, exit_code,
                   once, twice>>

\* SearchError with "continue" in place of "break"
SearchError_Continue ==
    /\ pc = "search"
    /\ calls' = Append(calls, TheCall)
    /\ out' = Append(out, [tag |-> "page_error", stream |-> "stderr",
                           page |-> page_idx])
    /\ pc' = "resume"
    /\ UNCHANGED <<args_query, args_api_key, env_api_key, args_pages,
                   consulta_final, api_key, client_key, header_query, page_idx,
                   matches, total_listados, ip_unicas, port_map, seen, batches,
                   sleeps, exit_code, once, twice>>

\* lines 126-130: cliente.search raises shodan.APIError; the generator
\* prints the error and ends, and so does main's for loop
SearchError ==
    /\ pc = "search"
    /\ calls' = Append(calls, TheCall)
    /\ out' = Append(out, [tag |-> "page_error", stream |-> "stderr",
                           page |-> page_idx])
    /\ pc' = "summary"
    /\ UNCHANGED <<args_query, args_api_key, env_api_key, args_pages,
                   consulta_final, api_key, client_key, header_query, page_idx,
                   matches, total_listados, ip_unicas, port_map, seen, batches,
                   sleeps, exit_code, once, twice>>

\* lines 164-175: the body of main's for loop on the yielded batch
Process ==
    /\ pc = "process"
    /\ IF NoResults(matches, total_listados)
       THEN /\ out' = Append(out, [tag |-> "no_results"])
            /\ pc' = "summary"
            /\ UNCHANGED <<total_listados, ip_unicas, port_map>>
       ELSE /\ out' = out \o Rows(matches, 1 + total_listados)
            /\ LET agg == AggregateAll(ip_unicas, port_map, matches)
               IN  /\ ip_unicas' = agg[1]
                   /\ port_map' = agg[2]
            /\ total_listados' = NewTotal(total_listados, matches)
            /\ pc' = "resume"
    /\ UNCHANGED <<args_query, args_api_key, env_api_key, args_pages,
                   consulta_final, api_key, client_key, header_query, page_idx,
                   calls, matches, seen, batches, sleeps, exit_code, once, twice>>

\* lines 132-133 and 125: the generator resumes after its yield, sleeps when
\* page_idx < paginas, and goes to the next index of the range or ends
Resume ==
    /\ pc = "resume"
    /\ sleeps' = IF page_idx < args_pages THEN sleeps + 1 ELSE sleeps
    /\ IF page_idx < LastPage(args_pages)
       THEN /\ page_idx' = page_idx + 1
            /\ pc' = "search"
       ELSE /\ pc' = "summary"
            /\ UNCHANGED page_idx
    /\ UNCHANGED <<args_query, args_api_key, env_api_key, args_pages,
                   consulta_final, api_key, client_key, header_query, calls,
                   matches, total_listados, ip_unicas, port_map, seen, batches,
                   out, exit_code, once, twice>>

\* lines 178-179
Summary ==
    /\ pc = "summary"
    /\ out' = Append(out, print_resumen(total_listados, ip_unicas, port_map))
    /\ exit_code' = 0
    /\ pc' = "done"
    /\ UNCHANGED <<args_query, args_api_key, env_api_key, args_pages,
                   consulta_final, api_key, client_key, header_query, page_idx,
                   calls, matches, total_listados, ip_unicas, port_map, seen,
                   batches, sleeps, once, twice>>

Next ==
    \/ Validate
    \/ Header
    \/ \E batch \in Batches(MaxListed - Listed(batches)) : SearchOk(batch)
    \/ SearchError
    \/ Process
    \/ Resume
    \/ Summary

Spec == Init /\ [][Next]_vars

(***************************************************************************)
(* The query policy on every query of Queries: a run of one page whose     *)
(* search call fails, and forzar_country_gt applied once and twice.        *)
(***************************************************************************)
Reapply ==
    /\ pc = "validate"
    /\ once = Unset
    /\ once' = forzar_country_gt(args_query)
    /\ twice' = forzar_country_gt(forzar_country_gt(args_query))
    /\ UNCHANGED <<args_query, args_api_key, env_api_key, args_pages, pc,
                   consulta_final, api_key, client_key, header_query, page_idx,
                   calls, matches, total_listados, ip_unicas, port_map, seen,
                   batches, out, sleeps, exit_code>>

NextQuery == Validate \/ Reapply \/ Header \/ SearchError \/ Summary

SpecQuery == InitQuery /\ [][NextQuery]_vars

(***************************************************************************)
(* Properties.                                                             *)
(***************************************************************************)
HasOut(t) == \E i \in 1..Len(out) : out[i].tag = t

LastOut == out[Len(out)]

Started == pc \notin {"validate", "failed"}

Ended == pc \in {"summary", "done"}

\* the org: key as the specification words it: "org:" in any letter case at
\* the start of the string or right after whitespace or "("
ClaimOrgKey(s) ==
    \E i \in 1..(Len(s) - 3) :
        /\ s[i] \in {"o", "O"}
        /\ s[i + 1] \in {"r", "R"}
        /\ s[i + 2] \in {"g", "G"}
        /\ s[i + 3] = ":"
        /\ (i = 1 \/ s[i - 1] \in {" ", "\t", "\n", "("})

\* C1: a run whose query carries the org: key never leaves validation: it
\* issues no search call, prints no header and no summary, and its only way
\* on is the failure exit with code 2.
C1_OrgQueryRejected ==
    ClaimOrgKey(args_query) =>
        /\ pc \in {"validate", "failed"}
        /\ calls = <<>>
        /\ ~HasOut("header")
        /\ ~HasOut("summary")
        /\ exit_code \in {-1, 2}
        /\ (pc = "failed" => exit_code = 2 /\ LastOut.stream = "stderr")
        /\ (pc = "validate" => ENABLED Validate)

C1_Witness ==
    /\ pc = "failed"
    /\ exit_code = 2
    /\ ClaimOrgKey(args_query)
    /\ args_query[1] = "p"

\* the credential the specification resolves: the argument, else the
\* environment variable
Resolved == IF args_api_key # None THEN args_api_key ELSE env_api_key

\* C2: with no credential from the argument or the environment the run
\* fails with exit code 2 before the header and before any search call;
\* otherwise the client is constructed with the resolved credential.
C2_CredentialResolved ==
    /\ Resolved = None =>
          /\ pc \in {"validate", "failed"}
          /\ calls = <<>>
          /\ ~HasOut("header")
          /\ exit_code \in {-1, 2}
    /\ client_key # "<no client>" => client_key = Resolved

ErrorSeen == HasOut("page_error")

\* the state once the search call of page k has raised
C3_AfterError ==
    \A i \in 1..Len(out) :
        out[i].tag = "page_error" =>
            LET k == out[i].page
            IN  /\ Len(calls) = k
                /\ \A j \in 1..Len(calls) : calls[j].page <= k
                /\ Len(batches) = k - 1
                /\ total_listados = Listed(batches)
                /\ Ended
                /\ exit_code \in {-1, 0}
                /\ (pc = "summary" => ENABLED Summary)
                /\ pc = "done" =>
                      /\ exit_code = 0
                      /\ LastOut = print_resumen(total_listados, ip_unicas,
                                                 port_map)

\* C3: once the search call of page k has raised, no further search call
\* is issued and the aggregate of pages 1..k-1 never changes again; the
\* summary is printed from it and the run ends with exit code 0.
C3_ErrorStopsLoop ==
    /\ []C3_AfterError
    /\ [][ErrorSeen =>
            /\ calls' = calls
            /\ total_listados' = total_listados
            /\ ip_unicas' = ip_unicas
            /\ port_map' = port_map]_vars

C3_Witness ==
    /\ pc = "done"
    /\ ErrorSeen
    /\ args_pages = 3
    /\ Len(calls) = 2
    /\ total_listados = 2

\* the generator ran to the end of its range: no service error, no break
Drained == Ended /\ ~HasOut("page_error") /\ ~HasOut("no_results")

CallsInOrder ==
    \A i \in 1..Len(calls) :
        calls[i] = [query |-> consulta_final, page |-> i, limit |-> PageSize]

\* C4 as claimed: a drained sequence issues one search call per page index
\* 1..page_count, in order, same query and page size, and yields one batch
\* per call: page_count batches, none when page_count < 1.
C4_OnePerPage ==
    /\ CallsInOrder
    /\ Drained =>
          /\ Len(calls) = (IF args_pages < 1 THEN 0 ELSE args_pages)
          /\ Len(batches) = Len(calls)

\* C4 amended: the page indexes are 1..max(1, page_count): a page_count
\* below 1 still issues the call of page 1 and yields its batch.
C4_OnePerPageAtLeastOne ==
    /\ CallsInOrder
    /\ Drained =>
          /\ Len(calls) = (IF args_pages < 1 THEN 1 ELSE args_pages)
          /\ Len(batches) = Len(calls)

C4_Witness ==
    /\ pc = "done"
    /\ Drained
    /\ args_pages = 3
    /\ Len(calls) = 3
    /\ Len(batches) = 3

FirstEmpty == Len(batches) >= 1 /\ batches[1] = 0

\* C5: when the first page returns no record the run prints the "no
\* results" notice, issues no search call beyond page 1, prints a summary
\* of 0 records, 0 unique IPs and no port table, and ends with exit code 0.
C5_FirstPageEmpty ==
    FirstEmpty =>
        /\ Len(calls) = 1
        /\ Len(batches) = 1
        /\ pc \in {"process", "summary", "done"}
        /\ (pc = "process" => ENABLED Process)
        /\ (pc = "summary" => ENABLED Summary)
        /\ (Ended => HasOut("no_results"))
        /\ exit_code \in {-1, 0}
        /\ pc = "done" =>
              /\ exit_code = 0
              /\ LastOut.tag = "summary"
              /\ LastOut.total = 0
              /\ LastOut.unique = 0
              /\ LastOut.table = <<>>
              /\ LastOut.noports

C5_Witness ==
    /\ pc = "done"
    /\ FirstEmpty
    /\ args_pages = 3
    /\ HasOut("no_results")

\* C6: an empty page k, 2 <= k < page_count, reached after records were
\* listed, prints no "no results" notice and the loop does not end without
\* the search call of page k+1; the loop ends with fewer than page_count
\* batches only after a service error or an empty first batch.
C6_EmptyPageGoesOn ==
    /\ \A k \in 2..Len(batches) :
          (/\ batches[k] = 0
           /\ k < args_pages
           /\ Listed(SubSeq(batches, 1, k - 1)) > 0) =>
              /\ ~HasOut("no_results")
              /\ (Ended => Len(calls) >= k + 1)
              /\ (pc \in {"process", "resume", "search"} => ENABLED Next)
    /\ (Ended /\ Len(batches) < args_pages) =>
          (HasOut("page_error") \/ batches = <<0>>)

C6_Witness ==
    /\ pc = "done"
    /\ args_pages = 3
    /\ Len(batches) = 3
    /\ batches[1] > 0
    /\ batches[2] = 0
    /\ ~ErrorSeen

\* the reference aggregate, from the records the service returned
RefHasIp(r) == r.ip_str \notin {None, ""} \/ r.ip \notin {None, ""}

RefIp(r) == IF r.ip_str \notin {None, ""} THEN r.ip_str ELSE r.ip

RefIps == {RefIp(r) : r \in {x \in seen : RefHasIp(x)}}

RefOnPort(p) ==
    {x \in seen : RefHasIp(x) /\ x.port.kind = "int" /\ x.port.n = p}

RefPorts == {x.port.n : x \in {y \in seen : RefHasIp(y) /\ y.port.kind = "int"}}

\* C7: whenever every yielded batch has been processed, total_listados is
\* the sum of the batch sizes, ip_unicas is the set of IPs of the records
\* that have one, and port_map has exactly the integer ports of records
\* with an IP, each mapped to the IPs of the records carrying that port.
C7_SummaryIsReference ==
    pc \in {"search", "resume", "summary", "done"} =>
        /\ total_listados = Listed(batches)
        /\ ip_unicas = RefIps
        /\ DOMAIN port_map = RefPorts
        /\ \A p \in RefPorts : port_map[p] = {RefIp(r) : r \in RefOnPort(p)}

\* the scenario of the specification: one page, 1.2.3.4:3389 twice and
\* 5.6.7.8:22
C7_Witness ==
    /\ pc = "done"
    /\ batches = <<3>>
    /\ total_listados = 3
    /\ ip_unicas = {"1.2.3.4", "5.6.7.8"}
    /\ DOMAIN port_map = {22, 3389}
    /\ port_map[3389] = {"1.2.3.4"}
    /\ port_map[22] = {"5.6.7.8"}

RECURSIVE SumPorts(_, _)
SumPorts(pm, ports) ==
    IF ports = {} THEN 0
    ELSE LET p == CHOOSE x \in ports : TRUE
         IN  Cardinality(pm[p]) + SumPorts(pm, ports \ {p})

\* the distinct integer ports observed with an IP
ObservedPorts(ip) ==
    {x.port.n : x \in {y \in seen : /\ RefHasIp(y)
                                    /\ RefIp(y) = ip
                                    /\ y.port.kind = "int"}}

MaxPortsPerIp ==
    IF ip_unicas = {} THEN 0
    ELSE LET counts == {Cardinality(ObservedPorts(ip)) : ip \in ip_unicas}
         IN  CHOOSE c \in counts : \A d \in counts : c >= d

\* C8: the number of unique IPs never exceeds total_listados, and the sum
\* of the sizes of the port sets never exceeds the number of unique IPs
\* times the largest number of distinct ports observed for one IP.
C8_AggregatorBounds ==
    /\ Cardinality(ip_unicas) <= total_listados
    /\ SumPorts(port_map, DOMAIN port_map)
          <= Cardinality(ip_unicas) * MaxPortsPerIp

C8_Witness ==
    /\ pc = "done"
    /\ Cardinality(ip_unicas) = 2
    /\ MaxPortsPerIp = 2
    /\ SumPorts(port_map, DOMAIN port_map) = 3

\* the number of matches of the country filter in s
CountryCount(s) == Cardinality({i \in 1..Len(s) : CountryAt(s, i)})

QueryUsed ==
    /\ header_query \in {Unset, consulta_final}
    /\ \A i \in 1..Len(calls) : calls[i].query = consulta_final

\* C9 as claimed: the normalized query of a run that passed validation
\* holds the country filter exactly once and never the org: key.
C9_ExactlyOnce ==
    Started =>
        /\ CountryCount(consulta_final) = 1
        /\ ~ClaimOrgKey(consulta_final)
        /\ QueryUsed

\* C9 amended: the normalized query holds the country filter at least
\* once: once when the user's query holds it at most once, and as many
\* times as the user's query otherwise; it never holds the org: key.
C9_AtLeastOnce ==
    Started =>
        /\ CountryCount(consulta_final) >= 1
        /\ CountryCount(consulta_final) =
              (IF CountryCount(args_query) <= 1 THEN 1
               ELSE CountryCount(args_query))
        /\ ~ClaimOrgKey(consulta_final)
        /\ QueryUsed

C9_Witness ==
    /\ pc = "done"
    /\ Len(calls) = 1
    /\ CountryCount(args_query) = 0
    /\ CountryCount(consulta_final) = 1
    /\ header_query = consulta_final

White == {" ", "\t", "\n"}

\* t is s without its leading and trailing whitespace
IsStripOf(t, s) ==
    \E a \in 1..(Len(s) + 1) : \E b \in 0..Len(s) :
        /\ t = SubSeq(s, a, b)
        /\ \A i \in 1..(a - 1) : s[i] \in White
        /\ \A i \in (b + 1)..Len(s) : s[i] \in White
        /\ (t # <<>> => t[1] \notin White /\ t[Len(t)] \notin White)

\* C10 as claimed: a query that holds the country filter is returned
\* unchanged, character for character, and forzar_country_gt applied twice
\* gives what it gives applied once.
C10_Unchanged ==
    once # Unset =>
        /\ (CountrySearch(args_query) => once = args_query)
        /\ twice = once

\* C10 amended: a query that holds the country filter is returned with its
\* leading and trailing whitespace removed and otherwise unchanged, and
\* forzar_country_gt applied twice gives what it gives applied once.
C10_UnchangedButStripped ==
    once # Unset =>
        /\ (CountrySearch(args_query) => IsStripOf(once, args_query))
        /\ twice = once

C10_Witness ==
    /\ once # Unset
    /\ CountrySearch(args_query)
    /\ args_query[1] \in White
    /\ once # args_query
    /\ twice = once

====
